---------------------------- MODULE Spec2Model ----------------------------
(***************************************************************************)
(* Model of ver0.3/ai.py: the streaming decoder and retry loop of          *)
(* stream_model, the tool loop of process_conversation_turn, and the two   *)
(* entry points (the CLI loop chat and ChatRequestHandler.do_POST) that    *)
(* share HISTORY.                                                          *)
(*                                                                         *)
(* A Python str is a sequence of characters (one-character TLA+ strings,   *)
(* or longer tokens that stand for a run of non-blank characters).  None   *)
(* is the one-element sequence <<"None">>.  A Python dict is a record      *)
(* whose DOMAIN is the set of keys present.                                *)
(***************************************************************************)
EXTENDS Integers, Sequences, FiniteSets, TLC

\* ---------------------------------------------------------------- bounds
MaxLines == 3        \* lines one streamed response carries (decoder runs)
MaxRetryLines == 2   \* lines one response carries in the retry runs
MaxTurns == 2        \* user inputs the two entry points accept in all
MaxToolRounds == 1   \* calls of a turn the server answers with an invocation

\* ------------------------------------------------------- program constants
MAX_RETRIES == 3
max_steps == 20

\* ------------------------------------------------------------ characters
None == <<"None">>
EmptyStr == <<>>
Blank == " "
LoneSurrogate == "\\ud800"
Whitespace == {Blank}

\* str.strip(): drop the whitespace at both ends
RECURSIVE LStrip(_)
LStrip(s) ==
    IF s # <<>> /\ Head(s) \in Whitespace THEN LStrip(Tail(s)) ELSE s

RECURSIVE RStrip(_)
RStrip(s) ==
    IF s # <<>> /\ s[Len(s)] \in Whitespace
    THEN RStrip(SubSeq(s, 1, Len(s) - 1))
    ELSE s

Strip(s) == RStrip(LStrip(s))

\* s.encode('utf-8', 'ignore').decode('utf-8'): characters with no UTF-8
\* encoding (lone surrogates) are dropped, every other character is kept
Utf8Ignore(s) == SelectSeq(s, LAMBDA c : c # LoneSurrogate)

\* truthiness of a str: x or None
OrNone(s) == IF s = EmptyStr THEN None ELSE s

\* dict.get(key, default)
Get(d, key, default) == IF key \in DOMAIN d THEN d[key] ELSE default

\* ------------------------------------------------------- stream lines
\* One line of resp.iter_lines().  raw: "blank" (the empty line), "other" (a
\* line that does not start with "data: ") or "data"; a data line carries the
\* payload after the prefix: the sentinel, a text json.loads rejects, or a
\* chunk object whose choices[0].delta is the record delta.
BlankLine == [raw |-> "blank"]
OtherLine == [raw |-> "other"]
DoneLine == [raw |-> "data", json |-> "[DONE]"]
BadJsonLine == [raw |-> "data", json |-> "invalid"]
Chunk(delta) == [raw |-> "data", json |-> "object", delta |-> delta]

\* fresh accumulators, lines 75-77
NewAccumulators ==
    [content |-> EmptyStr,
     tool_calls |-> <<>>,
     function_call |-> [name |-> EmptyStr, arguments |-> EmptyStr]]

NewToolCall ==
    [id |-> EmptyStr, type |-> "function",
     function |-> [name |-> EmptyStr, arguments |-> EmptyStr]]

\* while len(accumulated_tool_calls) <= idx: append a placeholder
RECURSIVE GrowTo(_, _)
GrowTo(tcs, idx) ==
    IF Len(tcs) <= idx THEN GrowTo(Append(tcs, NewToolCall), idx) ELSE tcs

\* ApplyToolCallDelta with the name assigned (=) instead of appended (+=)
ApplyToolCallDeltaAssignName(tcs, tc_delta) ==
    LET idx == Get(tc_delta, "index", 0)
        grown == GrowTo(tcs, idx)
        tc == grown[idx + 1]
        withId == IF "id" \in DOMAIN tc_delta
                  THEN [tc EXCEPT !.id = @ \o tc_delta.id]
                  ELSE tc
        f == Get(tc_delta, "function", <<>>)
        withName == IF "function" \in DOMAIN tc_delta /\ "name" \in DOMAIN f
                    THEN [withId EXCEPT !.function.name = f.name]
                    ELSE withId
        withArgs == IF "function" \in DOMAIN tc_delta /\ "arguments" \in DOMAIN f
                    THEN [withName EXCEPT !.function.arguments = @ \o f.arguments]
                    ELSE withName
    IN  [grown EXCEPT ![idx + 1] = withArgs]

\* lines 111-124: one element of delta["tool_calls"]
ApplyToolCallDelta(tcs, tc_delta) ==
    LET idx == Get(tc_delta, "index", 0)
        grown == GrowTo(tcs, idx)
        tc == grown[idx + 1]
        withId == IF "id" \in DOMAIN tc_delta
                  THEN [tc EXCEPT !.id = @ \o tc_delta.id]
                  ELSE tc
        f == Get(tc_delta, "function", <<>>)
        withName == IF "function" \in DOMAIN tc_delta /\ "name" \in DOMAIN f
                    THEN [withId EXCEPT !.function.name = @ \o f.name]
                    ELSE withId
        withArgs == IF "function" \in DOMAIN tc_delta /\ "arguments" \in DOMAIN f
                    THEN [withName EXCEPT !.function.arguments = @ \o f.arguments]
                    ELSE withName
    IN  [grown EXCEPT ![idx + 1] = withArgs]

RECURSIVE ApplyToolCallDeltas(_, _)
ApplyToolCallDeltas(tcs, deltas) ==
    IF deltas = <<>> THEN tcs
    ELSE ApplyToolCallDeltas(ApplyToolCallDelta(tcs, Head(deltas)), Tail(deltas))

\* lines 126-131
ApplyFunctionCallDelta(afc, fc) ==
    LET withName == IF "name" \in DOMAIN fc
                    THEN [afc EXCEPT !.name = @ \o fc.name]
                    ELSE afc
    IN  IF "arguments" \in DOMAIN fc
        THEN [withName EXCEPT !.arguments = @ \o fc.arguments]
        ELSE withName

\* lines 99-131: one parsed chunk
ApplyDelta(acc, delta) ==
    [content |->
        IF "content" \in DOMAIN delta /\ delta.content # None
        THEN acc.content \o delta.content
        ELSE acc.content,
     tool_calls |->
        IF "tool_calls" \in DOMAIN delta
        THEN ApplyToolCallDeltas(acc.tool_calls, delta.tool_calls)
        ELSE acc.tool_calls,
     function_call |->
        IF "function_call" \in DOMAIN delta
        THEN ApplyFunctionCallDelta(acc.function_call, delta.function_call)
        ELSE acc.function_call]

\* IterLines with break in place of continue on a json.loads failure
RECURSIVE IterLinesBreakOnBadJson(_, _)
IterLinesBreakOnBadJson(acc, lines) ==
    IF lines = <<>> THEN acc
    ELSE LET line == Head(lines) IN
         IF line.raw # "data" THEN IterLinesBreakOnBadJson(acc, Tail(lines))
         ELSE IF line.json = "[DONE]" THEN acc
         ELSE IF line.json = "invalid" THEN acc
         ELSE IterLinesBreakOnBadJson(ApplyDelta(acc, line.delta), Tail(lines))

\* lines 88-131: the loop over the lines of one response
RECURSIVE IterLines(_, _)
IterLines(acc, lines) ==
    IF lines = <<>> THEN acc
    ELSE LET line == Head(lines) IN
         IF line.raw # "data" THEN IterLines(acc, Tail(lines))
         ELSE IF line.json = "[DONE]" THEN acc
         ELSE IF line.json = "invalid" THEN IterLines(acc, Tail(lines))
         ELSE IterLines(ApplyDelta(acc, line.delta), Tail(lines))

\* lines 159-169: the accumulators that have a name, id defaulted to None
RECURSIVE Clean(_)
Clean(tcs) ==
    IF tcs = <<>> THEN <<>>
    ELSE LET tc == Head(tcs) IN
         IF tc.function.name # EmptyStr
         THEN <<[id |-> OrNone(tc.id), type |-> "function",
                 function |-> [name |-> tc.function.name,
                               arguments |-> tc.function.arguments]]>>
              \o Clean(Tail(tcs))
         ELSE Clean(Tail(tcs))

\* BuildMessage with the legacy test as a second if instead of elif
BuildMessageBothForms(acc) ==
    LET content == Utf8Ignore(Strip(acc.content))
        base == [role |-> "assistant", content |-> OrNone(content)]
        clean == Clean(acc.tool_calls)
        withTools == IF clean # <<>>
                     THEN [role |-> "assistant", content |-> OrNone(content),
                           tool_calls |-> clean]
                     ELSE base
    IN  IF acc.function_call.name # EmptyStr
        THEN IF clean # <<>>
             THEN [role |-> "assistant", content |-> OrNone(content),
                   tool_calls |-> clean, function_call |-> acc.function_call]
             ELSE [role |-> "assistant", content |-> OrNone(content),
                   function_call |-> acc.function_call]
        ELSE withTools

\* lines 152-176: the Message built from the accumulators
BuildMessage(acc) ==
    LET content == Utf8Ignore(Strip(acc.content))
        base == [role |-> "assistant", content |-> OrNone(content)]
        clean == Clean(acc.tool_calls)
    IN  IF acc.tool_calls # <<>>
        THEN IF clean # <<>>
             THEN [role |-> "assistant", content |-> OrNone(content),
                   tool_calls |-> clean]
             ELSE base
        ELSE IF acc.function_call.name # EmptyStr
             THEN [role |-> "assistant", content |-> OrNone(content),
                   function_call |-> acc.function_call]
             ELSE base

\* line 139: f"[Error: {e}]"
ErrorText(e) == <<"[Error: ", e, "]">>

\* line 141: (2 ** attempt) * 1.5 seconds, in half seconds
Wait(attempt) == (2 ^ attempt) * 3


\* ------------------------------------------------------------ tools
\* TOOLS, line 39: the names load_tools registered
TOOLS == {<<"f">>}

\* json.loads on the texts the model draws argument strings from: "{}" is an
\* object, a run of digits is a number, every other text (the empty one
\* included) raises
JsonLoads(s) ==
    IF s = <<"{", "}">> THEN [kind |-> "object"]
    ELSE IF s # <<>> /\ \A i \in 1..Len(s) : s[i] = "1" THEN [kind |-> "number"]
    ELSE [kind |-> "raises"]

\* lines 209-212 and 232-235: try json.loads, except: args = {}
ParseArgs(s) ==
    IF JsonLoads(s).kind = "raises" THEN [kind |-> "object"] ELSE JsonLoads(s)

UnknownTool == <<"{", "\"error\"", ": ", "\"Unknown tool\"", "}">>
\* json.dumps of what the capability fname returned
ToolOutput(fname) == <<"\"result of ">> \o fname \o <<"\"">>

\* ------------------------------------------------------------ state
Threads == {"cli", "http"}

VARIABLES
    HISTORY,          \* the shared list, line 43
    pc,               \* per thread: "idle", "request", "tools", "dead"
    turns,            \* per thread: user inputs accepted so far
    prompt_in,        \* per thread: the prompt last read, before strip()
    step,             \* process_conversation_turn: step
    final_response,   \* process_conversation_turn: final_response
    assistant_msg,    \* process_conversation_turn: assistant_msg
    tool_messages,    \* process_conversation_turn: tool_messages
    tool_pos,         \* position of the for loop over tool_calls, from 1
    attempt,          \* stream_model: attempt
    accumulated,      \* stream_model: the three accumulated_* locals
    received,         \* per thread: the lines each attempt of this call read
    errors,           \* per thread: the exception of each failed attempt
    sleeps,           \* per thread: the time.sleep waits of this call
    sent,             \* per thread: the messages the last request carried
    requests,         \* per thread: requests.post calls in this turn
    calls,            \* per thread: stream_model calls in this turn
    tool_runs,        \* per thread: capabilities invoked in this turn
    outcome,          \* per thread: how the last turn ended
    status            \* HTTP status of the last POST /chat (0: none yet)

turnVars == <<step, final_response, assistant_msg, tool_messages, tool_pos>>
streamVars == <<attempt, accumulated, received, errors, sleeps, sent>>
logVars == <<requests, calls, tool_runs, outcome, status>>
vars == <<HISTORY, pc, turns, prompt_in, turnVars, streamVars, logVars>>

SystemMessage == [role |-> "system", content |-> <<"rules">>]
NoMessage == [role |-> "none"]
NotEnded == [kind |-> "none", value |-> None]

Init ==
    /\ HISTORY = <<SystemMessage>>
    /\ pc = [t \in Threads |-> "idle"]
    /\ turns = [t \in Threads |-> 0]
    /\ prompt_in = [t \in Threads |-> EmptyStr]
    /\ step = [t \in Threads |-> 0]
    /\ final_response = [t \in Threads |-> EmptyStr]
    /\ assistant_msg = [t \in Threads |-> NoMessage]
    /\ tool_messages = [t \in Threads |-> <<>>]
    /\ tool_pos = [t \in Threads |-> 1]
    /\ attempt = [t \in Threads |-> 0]
    /\ accumulated = [t \in Threads |-> NewAccumulators]
    /\ received = [t \in Threads |-> <<>>]
    /\ errors = [t \in Threads |-> <<>>]
    /\ sleeps = [t \in Threads |-> <<>>]
    /\ sent = [t \in Threads |-> <<>>]
    /\ requests = [t \in Threads |-> 0]
    /\ calls = [t \in Threads |-> 0]
    /\ tool_runs = [t \in Threads |-> <<>>]
    /\ outcome = [t \in Threads |-> NotEnded]
    /\ status = 0

\* the process is alive: an exception that leaves chat() ends the main thread
\* and with it the daemon server thread (line 311)
Alive == \A t \in Threads : pc[t] # "dead"

\* line 256 and the caller: process_conversation_turn returns value; do_POST
\* answers 200 (lines 287-292), chat reads the next input
Returns(t, value) ==
    /\ pc' = [pc EXCEPT ![t] = "idle"]
    /\ outcome' = [outcome EXCEPT ![t] = [kind |-> "returned", value |-> value]]
    /\ status' = IF t = "http" THEN 200 ELSE status

\* an exception leaves process_conversation_turn: do_POST answers 500 (lines
\* 294-297); chat does not catch it, so the process ends
Raises(t) ==
    /\ pc' = IF t = "http" THEN [pc EXCEPT ![t] = "idle"]
             ELSE [u \in Threads |-> "dead"]
    /\ outcome' = [outcome EXCEPT ![t] = [kind |-> "raised", value |-> None]]
    /\ status' = IF t = "http" THEN 500 ELSE status

\* LoopHead with the while test off by one: step <= max_steps
LoopHeadOneMore(t, s, c, fr) ==
    IF s <= max_steps
    THEN /\ pc' = [pc EXCEPT ![t] = "request"]
         /\ step' = [step EXCEPT ![t] = s + 1]
         /\ calls' = [calls EXCEPT ![t] = c + 1]
         /\ attempt' = [attempt EXCEPT ![t] = 0]
         /\ accumulated' = [accumulated EXCEPT ![t] = NewAccumulators]
         /\ received' = [received EXCEPT ![t] = <<>>]
         /\ errors' = [errors EXCEPT ![t] = <<>>]
         /\ sleeps' = [sleeps EXCEPT ![t] = <<>>]
         /\ UNCHANGED <<outcome, status>>
    ELSE /\ Returns(t, fr)
         /\ step' = [step EXCEPT ![t] = s]
         /\ calls' = [calls EXCEPT ![t] = c]
         /\ UNCHANGED <<attempt, accumulated, received, errors, sleeps>>

\* lines 190-192: the while test with s the value of step and c the calls so
\* far; entering the body increments step and starts stream_model (lines 75-77)
LoopHead(t, s, c, fr) ==
    IF s < max_steps
    THEN /\ pc' = [pc EXCEPT ![t] = "request"]
         /\ step' = [step EXCEPT ![t] = s + 1]
         /\ calls' = [calls EXCEPT ![t] = c + 1]
         /\ attempt' = [attempt EXCEPT ![t] = 0]
         /\ accumulated' = [accumulated EXCEPT ![t] = NewAccumulators]
         /\ received' = [received EXCEPT ![t] = <<>>]
         /\ errors' = [errors EXCEPT ![t] = <<>>]
         /\ sleeps' = [sleeps EXCEPT ![t] = <<>>]
         /\ UNCHANGED <<outcome, status>>
    ELSE /\ Returns(t, fr)
         /\ step' = [step EXCEPT ![t] = s]
         /\ calls' = [calls EXCEPT ![t] = c]
         /\ UNCHANGED <<attempt, accumulated, received, errors, sleeps>>

\* lines 318-331 (t = "cli") and 272-284 (t = "http"): a non-empty prompt is
\* appended and process_conversation_turn starts (lines 186-188)
UserInput(t, prompt) ==
    /\ Alive
    /\ pc[t] = "idle"
    /\ turns["cli"] + turns["http"] < MaxTurns
    /\ Strip(prompt) # EmptyStr
    /\ turns' = [turns EXCEPT ![t] = @ + 1]
    /\ prompt_in' = [prompt_in EXCEPT ![t] = prompt]
    /\ HISTORY' = Append(HISTORY, [role |-> "user", content |-> Strip(prompt)])
    /\ final_response' = [final_response EXCEPT ![t] = EmptyStr]
    /\ assistant_msg' = [assistant_msg EXCEPT ![t] = NoMessage]
    /\ tool_messages' = [tool_messages EXCEPT ![t] = <<>>]
    /\ tool_pos' = [tool_pos EXCEPT ![t] = 1]
    /\ requests' = [requests EXCEPT ![t] = 0]
    /\ tool_runs' = [tool_runs EXCEPT ![t] = <<>>]
    /\ LoopHead(t, 0, 0, EmptyStr)
    /\ UNCHANGED sent

\* EmptyPrompt without the test of line 275: the prompt is appended and the
\* turn starts
EmptyPromptStartsTurn(prompt) ==
    /\ Alive
    /\ pc["http"] = "idle"
    /\ turns["cli"] + turns["http"] < MaxTurns
    /\ Strip(prompt) = EmptyStr
    /\ turns' = [turns EXCEPT !["http"] = @ + 1]
    /\ prompt_in' = [prompt_in EXCEPT !["http"] = prompt]
    /\ HISTORY' = Append(HISTORY, [role |-> "user", content |-> Strip(prompt)])
    /\ final_response' = [final_response EXCEPT !["http"] = EmptyStr]
    /\ assistant_msg' = [assistant_msg EXCEPT !["http"] = NoMessage]
    /\ tool_messages' = [tool_messages EXCEPT !["http"] = <<>>]
    /\ tool_pos' = [tool_pos EXCEPT !["http"] = 1]
    /\ requests' = [requests EXCEPT !["http"] = 0]
    /\ tool_runs' = [tool_runs EXCEPT !["http"] = <<>>]
    /\ LoopHead("http", 0, 0, EmptyStr)
    /\ UNCHANGED sent

\* lines 275-278: POST /chat whose prompt is empty after strip()
EmptyPrompt(prompt) ==
    /\ Alive
    /\ pc["http"] = "idle"
    /\ turns["cli"] + turns["http"] < MaxTurns
    /\ Strip(prompt) = EmptyStr
    /\ turns' = [turns EXCEPT !["http"] = @ + 1]
    /\ prompt_in' = [prompt_in EXCEPT !["http"] = prompt]
    /\ status' = 400
    /\ UNCHANGED <<HISTORY, pc, turnVars, streamVars, requests, calls,
                   tool_runs, outcome>>

\* ------------------------------------------------------ stream_model
\* IsLastAttempt off by one: attempt == MAX_RETRIES
IsLastAttemptOffByOne(a) == a = MAX_RETRIES

\* line 136: the attempt whose failure is not retried
IsLastAttempt(a) == a = MAX_RETRIES - 1

\* a transport failure interrupts the response before any sentinel line
NoSentinel(lines) == \A i \in 1..Len(lines) : lines[i] # DoneLine

\* lines 195-201: the Message carries no invocation
IsFinal(msg) ==
    /\ "tool_calls" \notin DOMAIN msg
    /\ "function_call" \notin DOMAIN msg

\* Finish with the final branch leaving final_response as it was
FinishNoAnswer(t, acc) ==
    LET msg == BuildMessage(acc) IN
    /\ accumulated' = [accumulated EXCEPT ![t] = acc]
    /\ HISTORY' = Append(HISTORY, msg)
    /\ assistant_msg' = [assistant_msg EXCEPT ![t] = msg]
    /\ tool_messages' = [tool_messages EXCEPT ![t] = <<>>]
    /\ tool_pos' = [tool_pos EXCEPT ![t] = 1]
    /\ IF IsFinal(msg)
       THEN /\ UNCHANGED final_response
            /\ Returns(t, final_response[t])
       ELSE /\ pc' = [pc EXCEPT ![t] = "tools"]
            /\ UNCHANGED <<final_response, outcome, status>>
    /\ UNCHANGED <<turns, prompt_in, step, calls, tool_runs>>

\* Finish with the assistant Message stored over the last entry of HISTORY
\* instead of appended
FinishOverLast(t, acc) ==
    LET msg == BuildMessage(acc) IN
    /\ accumulated' = [accumulated EXCEPT ![t] = acc]
    /\ HISTORY' = [HISTORY EXCEPT ![Len(HISTORY)] = msg]
    /\ assistant_msg' = [assistant_msg EXCEPT ![t] = msg]
    /\ tool_messages' = [tool_messages EXCEPT ![t] = <<>>]
    /\ tool_pos' = [tool_pos EXCEPT ![t] = 1]
    /\ IF IsFinal(msg)
       THEN /\ final_response' = [final_response EXCEPT ![t] = msg.content]
            /\ Returns(t, msg.content)
       ELSE /\ pc' = [pc EXCEPT ![t] = "tools"]
            /\ UNCHANGED <<final_response, outcome, status>>
    /\ UNCHANGED <<turns, prompt_in, step, calls, tool_runs>>

\* lines 146-176 and 193-204: stream_model builds the Message from acc and
\* returns it; process_conversation_turn appends it and either ends the turn
\* with its content or starts on its invocations
Finish(t, acc) ==
    LET msg == BuildMessage(acc) IN
    /\ accumulated' = [accumulated EXCEPT ![t] = acc]
    /\ HISTORY' = Append(HISTORY, msg)
    /\ assistant_msg' = [assistant_msg EXCEPT ![t] = msg]
    /\ tool_messages' = [tool_messages EXCEPT ![t] = <<>>]
    /\ tool_pos' = [tool_pos EXCEPT ![t] = 1]
    /\ IF IsFinal(msg)
       THEN /\ final_response' = [final_response EXCEPT ![t] = msg.content]
            /\ Returns(t, msg.content)
       ELSE /\ pc' = [pc EXCEPT ![t] = "tools"]
            /\ UNCHANGED <<final_response, outcome, status>>
    /\ UNCHANGED <<turns, prompt_in, step, calls, tool_runs>>

\* Request under a lock held by a turn from its assistant Message to line
\* 252: no request while another thread executes tools
RequestLocked(t, lines) ==
    /\ Alive
    /\ pc[t] = "request"
    /\ \A u \in Threads : pc[u] # "tools"
    /\ requests' = [requests EXCEPT ![t] = @ + 1]
    /\ sent' = [sent EXCEPT ![t] = HISTORY]
    /\ received' = [received EXCEPT ![t] = Append(@, lines)]

\* line 83: one requests.post, which serialises the messages as they are now
Request(t, lines) ==
    /\ Alive
    /\ pc[t] = "request"
    /\ requests' = [requests EXCEPT ![t] = @ + 1]
    /\ sent' = [sent EXCEPT ![t] = HISTORY]
    /\ received' = [received EXCEPT ![t] = Append(@, lines)]

\* lines 82-133: an attempt whose response is read to its end (the sentinel
\* or the end of the stream); break
AttemptSucceeds(t, lines) ==
    /\ Request(t, lines)
    /\ Finish(t, IterLines(accumulated[t], lines))
    /\ UNCHANGED <<attempt, errors, sleeps>>

\* lines 135-144: an attempt that raises e after reading lines, not the last
\* one: sleep, then the next attempt
AttemptFailsRetry(t, lines, e) ==
    /\ Request(t, lines)
    /\ NoSentinel(lines)
    /\ ~IsLastAttempt(attempt[t])
    /\ accumulated' = [accumulated EXCEPT ![t] = IterLines(@, lines)]
    /\ errors' = [errors EXCEPT ![t] = Append(@, e)]
    /\ sleeps' = [sleeps EXCEPT ![t] = Append(@, Wait(attempt[t]))]
    /\ attempt' = [attempt EXCEPT ![t] = @ + 1]
    /\ UNCHANGED <<HISTORY, pc, turns, prompt_in, turnVars, calls, tool_runs,
                   outcome, status>>

\* lines 135-140: the last attempt raises e after reading lines; the error
\* text replaces accumulated_content; break
AttemptFailsLast(t, lines, e) ==
    /\ Request(t, lines)
    /\ NoSentinel(lines)
    /\ IsLastAttempt(attempt[t])
    /\ errors' = [errors EXCEPT ![t] = Append(@, e)]
    /\ Finish(t, [IterLines(accumulated[t], lines) EXCEPT !.content = ErrorText(e)])
    /\ UNCHANGED <<attempt, sleeps>>

\* ------------------------------------------- process_conversation_turn
\* the invocation the tool loop is at: lines 206-208 or 230-231
HasToolCalls(msg) == "tool_calls" \in DOMAIN msg
Invocations(msg) ==
    IF HasToolCalls(msg) THEN msg.tool_calls
    ELSE <<[function |-> msg.function_call]>>

\* ToolMessage with the default of tc.get("id", "call_1") always taken
ToolMessageDefaultId(msg, tc, content) ==
    IF HasToolCalls(msg)
    THEN [role |-> "tool", tool_call_id |-> <<"call_1">>,
          name |-> tc.function.name, content |-> content]
    ELSE [role |-> "tool", name |-> tc.function.name, content |-> content]

\* lines 223-228 and 246-250: the tool-result Message
ToolMessage(msg, tc, content) ==
    IF HasToolCalls(msg)
    THEN [role |-> "tool", tool_call_id |-> tc.id, name |-> tc.function.name,
          content |-> content]
    ELSE [role |-> "tool", name |-> tc.function.name, content |-> content]

\* ToolReturns with each tool-result Message inserted at the head of
\* tool_messages instead of appended
ToolReturnsInsertsFirst(t) ==
    LET msg == assistant_msg[t]
        tc == Invocations(msg)[tool_pos[t]]
        fname == tc.function.name
        args == ParseArgs(tc.function.arguments)
        content == IF fname \in TOOLS THEN ToolOutput(fname) ELSE UnknownTool
        msgs == <<ToolMessage(msg, tc, content)>> \o tool_messages[t]
    IN
    /\ Alive
    /\ pc[t] = "tools"
    /\ fname \in TOOLS => args.kind = "object"
    /\ tool_runs' = [tool_runs EXCEPT ![t] =
                        IF fname \in TOOLS THEN Append(@, fname) ELSE @]
    /\ tool_messages' = [tool_messages EXCEPT ![t] = msgs]
    /\ IF tool_pos[t] < Len(Invocations(msg))
       THEN /\ tool_pos' = [tool_pos EXCEPT ![t] = @ + 1]
            /\ UNCHANGED <<HISTORY, pc, step, calls, attempt, accumulated,
                           received, errors, sleeps, outcome, status>>
       ELSE /\ HISTORY' = HISTORY \o msgs
            /\ LoopHead(t, step[t], calls[t], final_response[t])
            /\ UNCHANGED tool_pos
    /\ UNCHANGED <<turns, prompt_in, final_response, assistant_msg, sent,
                   requests>>

\* lines 207-228 and 231-250 for one invocation that yields a result: an
\* unknown name, or a capability that returns; after the last invocation
\* line 252 extends HISTORY and the loop goes to its head
ToolReturns(t) ==
    LET msg == assistant_msg[t]
        tc == Invocations(msg)[tool_pos[t]]
        fname == tc.function.name
        args == ParseArgs(tc.function.arguments)
        content == IF fname \in TOOLS THEN ToolOutput(fname) ELSE UnknownTool
        msgs == Append(tool_messages[t], ToolMessage(msg, tc, content))
    IN
    /\ Alive
    /\ pc[t] = "tools"
    /\ fname \in TOOLS => args.kind = "object"
    /\ tool_runs' = [tool_runs EXCEPT ![t] =
                        IF fname \in TOOLS THEN Append(@, fname) ELSE @]
    /\ tool_messages' = [tool_messages EXCEPT ![t] = msgs]
    /\ IF tool_pos[t] < Len(Invocations(msg))
       THEN /\ tool_pos' = [tool_pos EXCEPT ![t] = @ + 1]
            /\ UNCHANGED <<HISTORY, pc, step, calls, attempt, accumulated,
                           received, errors, sleeps, outcome, status>>
       ELSE /\ HISTORY' = HISTORY \o msgs
            /\ LoopHead(t, step[t], calls[t], final_response[t])
            /\ UNCHANGED tool_pos
    /\ UNCHANGED <<turns, prompt_in, final_response, assistant_msg, sent,
                   requests>>

\* ToolRaises without the `if fname in TOOLS` test: TOOLS.get(fname) is called
\* whatever the name
ToolRaisesAnyName(t) ==
    LET msg == assistant_msg[t]
        tc == Invocations(msg)[tool_pos[t]]
        fname == tc.function.name
        args == ParseArgs(tc.function.arguments)
    IN
    /\ Alive
    /\ pc[t] = "tools"
    /\ tool_runs' = [tool_runs EXCEPT ![t] =
                        IF fname \in TOOLS /\ args.kind = "object"
                        THEN Append(@, fname) ELSE @]
    /\ Raises(t)
    /\ UNCHANGED <<HISTORY, turns, prompt_in, turnVars, streamVars, requests,
                   calls>>

\* ToolRaises with the results so far stored in HISTORY before the exception
\* leaves the turn
ToolRaisesKeepsResults(t) ==
    LET msg == assistant_msg[t]
        tc == Invocations(msg)[tool_pos[t]]
        fname == tc.function.name
        args == ParseArgs(tc.function.arguments)
    IN
    /\ Alive
    /\ pc[t] = "tools"
    /\ fname \in TOOLS
    /\ tool_runs' = [tool_runs EXCEPT ![t] =
                        IF args.kind = "object" THEN Append(@, fname) ELSE @]
    /\ HISTORY' = HISTORY \o tool_messages[t]
    /\ Raises(t)
    /\ UNCHANGED <<turns, prompt_in, turnVars, streamVars, requests, calls>>

\* lines 217 and 240: the call raises, either because **args is given a value
\* that is no mapping (TypeError before the capability runs) or inside the
\* capability; nothing in process_conversation_turn catches it
ToolRaises(t) ==
    LET msg == assistant_msg[t]
        tc == Invocations(msg)[tool_pos[t]]
        fname == tc.function.name
        args == ParseArgs(tc.function.arguments)
    IN
    /\ Alive
    /\ pc[t] = "tools"
    /\ fname \in TOOLS
    /\ tool_runs' = [tool_runs EXCEPT ![t] =
                        IF args.kind = "object" THEN Append(@, fname) ELSE @]
    /\ Raises(t)
    /\ UNCHANGED <<HISTORY, turns, prompt_in, turnVars, streamVars, requests,
                   calls>>

\* ------------------------------------------------------- responses
\* every sequence of at most n lines over the alphabet A
LineSeqs(A, n) == UNION {[1..k -> A] : k \in 0..n}

ContentChunk(text) == Chunk([content |-> text])
ToolCallChunk(tc_delta) == Chunk([tool_calls |-> <<tc_delta>>])
FunctionCallChunk(fc) == Chunk([function_call |-> fc])

\* the lines of the decoder runs: the four kinds the loop skips or stops at,
\* content deltas, tool-call deltas for two indices and legacy deltas
DecodeAlphabet ==
    {BlankLine, OtherLine, DoneLine, BadJsonLine,
     ContentChunk(<<"a">>), ContentChunk(<<Blank>>),
     ContentChunk(<<LoneSurrogate>>), ContentChunk(None),
     ToolCallChunk([index |-> 0, id |-> <<"c0">>,
                    function |-> [name |-> <<"f">>, arguments |-> EmptyStr]]),
     ToolCallChunk([function |-> [arguments |-> <<"{">>]]),
     ToolCallChunk([index |-> 1, function |-> [name |-> <<"g">>]]),
     ToolCallChunk([index |-> 1, id |-> <<"c1">>,
                    function |-> [name |-> <<"h">>, arguments |-> <<"}">>]]),
     FunctionCallChunk([name |-> <<"f">>]),
     FunctionCallChunk([arguments |-> <<"{", "}">>])}

\* the lines of the retry runs: one delta of each kind
RetryAlphabet ==
    {ContentChunk(<<"a">>),
     ToolCallChunk([index |-> 0, id |-> <<"c0">>,
                    function |-> [name |-> <<"f">>, arguments |-> <<"{", "}">>]]),
     FunctionCallChunk([name |-> <<"g">>, arguments |-> <<"1">>])}

\* the exceptions a failed attempt raises
Exceptions == {"timeout", "refused"}

\* the responses of the whole-turn runs: one that asks for the tool f, one
\* that answers, and one that ends at once
AskTool ==
    <<ContentChunk(<<"a">>),
      ToolCallChunk([index |-> 0, id |-> <<"c0">>,
                     function |-> [name |-> <<"f">>, arguments |-> <<"{", "}">>]]),
      DoneLine>>
Answer == <<ContentChunk(<<"b">>), DoneLine>>
TurnResponses == {AskTool, Answer, <<>>}

\* ------------------------------------------------------ specifications
\* the first input of a session
FirstInput(t) == HISTORY = <<SystemMessage>> /\ UserInput(t, <<"hi">>)

\* stream_model decoding one response, no failure
NextDecode ==
    \/ FirstInput("cli")
    \/ /\ pc["cli"] = "request"
       /\ \E lines \in LineSeqs(DecodeAlphabet, MaxLines) :
             AttemptSucceeds("cli", lines)
SpecDecode == Init /\ [][NextDecode]_vars

\* stream_model with failing attempts
NextRetry ==
    \/ FirstInput("cli")
    \/ /\ pc["cli"] = "request"
       /\ \E lines \in LineSeqs(RetryAlphabet, MaxRetryLines) :
             \/ AttemptSucceeds("cli", lines)
             \/ \E e \in Exceptions : AttemptFailsRetry("cli", lines, e)
             \/ \E e \in Exceptions : AttemptFailsLast("cli", lines, e)
SpecRetry == Init /\ [][NextRetry]_vars

\* one whole turn of POST /chat; attempts fail before any line arrives
NextTurn ==
    \/ FirstInput("http")
    \/ \E lines \in TurnResponses : AttemptSucceeds("http", lines)
    \/ AttemptFailsRetry("http", <<>>, "timeout")
    \/ AttemptFailsLast("http", <<>>, "timeout")
    \/ ToolReturns("http")
    \/ ToolRaises("http")
SpecTurn == Init /\ [][NextTurn]_vars
FairSpecTurn == SpecTurn /\ WF_vars(NextTurn)

\* the responses the server gives thread t: it asks for a tool in the first
\* MaxToolRounds calls of a turn only
OfferedResponses(t) ==
    IF calls[t] <= MaxToolRounds THEN TurnResponses
    ELSE TurnResponses \ {AskTool}

\* both entry points sharing HISTORY; every request is answered (failing
\* attempts are the subject of SpecRetry and SpecTurn)
Next ==
    \E t \in Threads :
        \/ \E prompt \in {<<"hi">>, <<Blank, "hi">>} : UserInput(t, prompt)
        \/ t = "http" /\ \E prompt \in {EmptyStr, <<Blank>>} : EmptyPrompt(prompt)
        \/ \E lines \in OfferedResponses(t) : AttemptSucceeds(t, lines)
        \/ ToolReturns(t)
        \/ ToolRaises(t)
Spec == Init /\ [][Next]_vars

\* ------------------------------------------------------------ claims
\* the turn of thread t has ended by a return of process_conversation_turn
Returned(t) == pc[t] = "idle" /\ outcome[t].kind = "returned"

\* the assistant Messages of HISTORY
AssistantIndices == {i \in 1..Len(HISTORY) : HISTORY[i].role = "assistant"}

\* the Message carries an invocation of one of the two forms
CarriesInvocation(msg) ==
    "tool_calls" \in DOMAIN msg \/ "function_call" \in DOMAIN msg

\* C1: in the first turn of a session HISTORY[3] is the first assistant
\* Message; when it carries neither tool_calls nor function_call, the turn
\* has ended after one stream_model call, no capability was invoked, nothing
\* else was appended and the value returned is that Message's content.
C1_NoInvocationEndsTurn ==
    (Len(HISTORY) >= 3 /\ ~CarriesInvocation(HISTORY[3])) =>
        /\ Returned("http")
        /\ calls["http"] = 1
        /\ tool_runs["http"] = <<>>
        /\ Len(HISTORY) = 3
        /\ outcome["http"].value = HISTORY[3].content

C1_Witness ==
    /\ Returned("http")
    /\ Len(HISTORY) = 3
    /\ HISTORY[3] = [role |-> "assistant", content |-> <<"b">>]
    /\ requests["http"] = 3
    /\ outcome["http"].value = <<"b">>

\* C2: a turn makes at most 20 stream_model calls, each of at most
\* MAX_RETRIES = 3 request attempts, so at most 60 attempts; a turn that
\* returned and whose assistant Messages all carried an invocation made
\* exactly 20 calls; and every turn ends (by a return or by an exception).
C2_Bounded ==
    /\ calls["http"] <= 20
    /\ Len(received["http"]) <= 3
    /\ requests["http"] <= 60
    /\ (Returned("http") /\ \A i \in AssistantIndices : CarriesInvocation(HISTORY[i]))
          => calls["http"] = 20

C2_TurnTerminates ==
    /\ []C2_Bounded
    /\ <>(pc["http"] = "idle" /\ outcome["http"].kind # "none")

C2_Witness ==
    /\ Returned("http")
    /\ calls["http"] = 20
    /\ requests["http"] = 60
    /\ \A i \in AssistantIndices : CarriesInvocation(HISTORY[i])

\* C3: when the turn is ended by the 20-step bound (the 20th assistant
\* Message still carried an invocation), the value returned is the content of
\* that last assistant Message, the empty text when it had none.
C3_CutoffReturnsLastContent ==
    (Returned("http") /\ CarriesInvocation(assistant_msg["http"])) =>
        outcome["http"].value =
            IF assistant_msg["http"].content = None THEN EmptyStr
            ELSE assistant_msg["http"].content

\* stream_model of the cli thread has returned its Message, which is HISTORY[3]
\* in the first turn of a session
StreamReturned == pc["cli"] # "request" /\ Len(HISTORY) >= 3

\* what decoding lines alone, from fresh accumulators, yields
DecodeOf(lines) == BuildMessage(IterLines(NewAccumulators, lines))

\* C4: when the first two attempts fail and the third succeeds, 3 requests
\* were made, waits of 1.5 s and 3 s preceded the retries, and the Message is
\* the decode of the third attempt's lines.
C4_TwoFailuresThenSuccess ==
    (StreamReturned /\ Len(errors["cli"]) = 2 /\ Len(received["cli"]) = 3) =>
        /\ requests["cli"] = 3
        /\ sleeps["cli"] = <<3, 6>>
        /\ HISTORY[3] = DecodeOf(received["cli"][3])

\* C5: when all three attempts fail, stream_model has returned without an
\* exception after exactly 3 requests and 2 waits (none after the last
\* failure), and the assistant Message's content is the error text of the
\* third failure.
C5_AllAttemptsFail ==
    Len(errors["cli"]) = 3 =>
        /\ pc["cli"] # "request"
        /\ outcome["cli"].kind # "raised"
        /\ requests["cli"] = 3
        /\ Len(received["cli"]) = 3
        /\ sleeps["cli"] = <<3, 6>>
        /\ Len(HISTORY) = 3
        /\ HISTORY[3].role = "assistant"
        /\ HISTORY[3].content = <<"[Error: ", errors["cli"][3], "]">>

C5_Witness ==
    /\ Len(errors["cli"]) = 3
    /\ errors["cli"] = <<"timeout", "timeout", "refused">>
    /\ received["cli"][1] # <<>>
    /\ received["cli"][3] # <<>>
    /\ HISTORY[3].content = <<"[Error: ", "refused", "]">>

\* C6: whenever an attempt completed, the Message is built from the lines of
\* that attempt only: nothing an earlier, failed attempt received is in it.
C6_OnlyCompletedAttempt ==
    (StreamReturned /\ Len(errors["cli"]) < Len(received["cli"])) =>
        HISTORY[3] = DecodeOf(received["cli"][Len(received["cli"])])

\* ---- what one response carries, read off its lines
\* the lines before the first sentinel line
RECURSIVE BeforeSentinel(_)
BeforeSentinel(lines) ==
    IF lines = <<>> \/ Head(lines) = DoneLine THEN <<>>
    ELSE <<Head(lines)>> \o BeforeSentinel(Tail(lines))

\* the deltas of the well-formed data chunks among lines, in arrival order
Deltas(lines) ==
    LET chunks == SelectSeq(lines,
                     LAMBDA l : l.raw = "data" /\ l.json = "object")
    IN  [i \in 1..Len(chunks) |-> chunks[i].delta]

RECURSIVE Concat(_)
Concat(ss) == IF ss = <<>> THEN <<>> ELSE Head(ss) \o Concat(Tail(ss))

\* the content fragments of the deltas ds, concatenated
ContentOf(ds) ==
    LET with == SelectSeq(ds,
                   LAMBDA d : "content" \in DOMAIN d /\ d.content # None)
    IN  Concat([i \in 1..Len(with) |-> with[i].content])

\* the tool-call deltas of ds, in arrival order
ToolCallDeltasOf(ds) ==
    LET with == SelectSeq(ds, LAMBDA d : "tool_calls" \in DOMAIN d)
    IN  Concat([i \in 1..Len(with) |-> with[i].tool_calls])

IndexOf(tc_delta) == IF "index" \in DOMAIN tc_delta THEN tc_delta.index ELSE 0

\* the indices the tool-call deltas tds address
Addressed(tds) == {IndexOf(tds[k]) : k \in 1..Len(tds)}

\* the name (field = "name") or argument (field = "arguments") fragments the
\* tool-call deltas tds carry for index i, concatenated
FragmentsOf(tds, i, field) ==
    LET with == SelectSeq(tds,
                   LAMBDA d : /\ IndexOf(d) = i
                              /\ "function" \in DOMAIN d
                              /\ field \in DOMAIN d.function)
    IN  Concat([k \in 1..Len(with) |-> with[k].function[field]])

\* the lines the one attempt of the decoder runs read before the sentinel
DecodedLines == BeforeSentinel(received["cli"][1])

\* the tool-call deltas of every chunk this stream_model call decoded, over
\* all its attempts, in arrival order
DecodedToolCallDeltas ==
    ToolCallDeltasOf(Concat([k \in 1..Len(received["cli"]) |->
                               Deltas(BeforeSentinel(received["cli"][k]))]))

NamedBelow(tds, i) ==
    {j \in Addressed(tds) : j < i /\ FragmentsOf(tds, j, "name") # EmptyStr}

SomeToolNamed(acc) ==
    \E k \in 1..Len(acc.tool_calls) : acc.tool_calls[k].function.name # EmptyStr

\* C9: when stream_model finishes, a legacy accumulator with a name and no
\* named tool-invocation accumulator give a Message with that function_call;
\* a named tool-invocation accumulator gives a Message with tool_calls.
C9_LegacyAttachedWhenNoToolNamed ==
    StreamReturned =>
        LET acc == accumulated["cli"] IN
        /\ (~SomeToolNamed(acc) /\ acc.function_call.name # EmptyStr) =>
              /\ "function_call" \in DOMAIN HISTORY[3]
              /\ HISTORY[3].function_call = acc.function_call
        /\ SomeToolNamed(acc) => "tool_calls" \in DOMAIN HISTORY[3]

\* C10: no assistant Message of HISTORY carries both tool_calls and
\* function_call; when deltas of both kinds gave names, the Message built
\* carries tool_calls and no function_call.
C10_NeverBothForms ==
    /\ \A i \in AssistantIndices :
          ~("tool_calls" \in DOMAIN HISTORY[i] /\ "function_call" \in DOMAIN HISTORY[i])
    /\ (StreamReturned /\ SomeToolNamed(accumulated["cli"])
          /\ accumulated["cli"].function_call.name # EmptyStr) =>
          /\ "tool_calls" \in DOMAIN HISTORY[3]
          /\ "function_call" \notin DOMAIN HISTORY[3]

C10_Witness ==
    /\ StreamReturned
    /\ accumulated["cli"].function_call.name = <<"f">>
    /\ SomeToolNamed(accumulated["cli"])
    /\ "tool_calls" \in DOMAIN HISTORY[3]
    /\ HISTORY[3].tool_calls[1].function.name = <<"g">>

\* ------------------------------------------------- tool-loop runs
\* the names and argument texts the server puts in an invocation
InvokedNames == {<<"f">>, <<"foo">>}
ArgumentTexts == {<<"{", "}">>, EmptyStr, <<"{">>, <<"1">>}

\* the responses of the tool-loop runs: one or two tool calls (the second
\* without an id), or one legacy function call
ToolResponses ==
    LET first(n, a) ==
            ToolCallChunk([index |-> 0, id |-> <<"c0">>,
                           function |-> [name |-> n, arguments |-> a]])
        second(n, a) ==
            ToolCallChunk([index |-> 1,
                           function |-> [name |-> n, arguments |-> a]])
    IN  {<<first(n, a)>> : n \in InvokedNames, a \in ArgumentTexts}
        \cup {<<first(n[1], a[1]), second(n[2], a[2])>> :
                 n \in InvokedNames \X InvokedNames,
                 a \in ArgumentTexts \X ArgumentTexts}
        \cup {<<FunctionCallChunk([name |-> n, arguments |-> a])>> :
                 n \in InvokedNames, a \in ArgumentTexts}

\* the server asks for tools in the first MaxToolRounds calls of the turn only
OfferedToolResponses ==
    IF calls["http"] <= MaxToolRounds THEN ToolResponses \cup {Answer}
    ELSE {Answer}

\* one turn of POST /chat whose responses ask for tools; no failing attempt
NextTools ==
    \/ FirstInput("http")
    \/ /\ pc["http"] = "request"
       /\ \E lines \in OfferedToolResponses : AttemptSucceeds("http", lines)
    \/ ToolReturns("http")
    \/ ToolRaises("http")
SpecTools == Init /\ [][NextTools]_vars

\* the invocation the tool loop of the http thread is at
CurrentInvocation == Invocations(assistant_msg["http"])[tool_pos["http"]]

\* the tool-result Messages of a sequence of Messages
ToolResults(msgs) == SelectSeq(msgs, LAMBDA m : m.role = "tool")

\* C11: every tool-result Message for a name that is not registered has the
\* content {"error": "Unknown tool"}; and the step that handles such an
\* invocation invokes no capability, appends that result to tool_messages,
\* and leaves the turn running: at the next invocation or, after the last
\* one, at the next model call with the results in HISTORY.
C11_UnknownToolResultInState ==
    \A m \in {HISTORY[i] : i \in 1..Len(HISTORY)}
             \cup {tool_messages["http"][i] : i \in 1..Len(tool_messages["http"])} :
        (m.role = "tool" /\ m.name # <<"f">>) =>
            m.content = <<"{", "\"error\"", ": ", "\"Unknown tool\"", "}">>

C11_UnknownToolStep ==
    (pc["http"] = "tools" /\ CurrentInvocation.function.name # <<"f">>) =>
        /\ tool_runs' = tool_runs
        /\ outcome' = outcome
        /\ Len(tool_messages'["http"]) = tool_pos["http"]
        /\ tool_messages'["http"][tool_pos["http"]].name =
              CurrentInvocation.function.name
        /\ IF tool_pos["http"] < Len(Invocations(assistant_msg["http"]))
           THEN pc'["http"] = "tools" /\ tool_pos'["http"] = tool_pos["http"] + 1
           ELSE /\ pc'["http"] = "request"
                /\ calls'["http"] = calls["http"] + 1
                /\ HISTORY' = HISTORY \o tool_messages'["http"]

C11_UnknownToolContinues ==
    []C11_UnknownToolResultInState /\ [][C11_UnknownToolStep]_vars

C11_Witness ==
    /\ pc["http"] = "request"
    /\ calls["http"] = 2
    /\ Len(HISTORY) = 5
    /\ HISTORY[3].tool_calls[1].function.name = <<"foo">>
    /\ HISTORY[3].tool_calls[1].function.arguments = <<"1">>
    /\ HISTORY[3].tool_calls[2].function.name = <<"f">>
    /\ HISTORY[4].content = <<"{", "\"error\"", ": ", "\"Unknown tool\"", "}">>
    /\ tool_runs["http"] = <<<<"f">>>>

\* C12: whenever the tool loop handles an invocation whose argument text is
\* not a JSON object (invalid JSON, the empty text, or JSON of another type),
\* a registered capability is invoked (with the empty argument set) and an
\* unregistered name does not end the turn.
C12_NonObjectArgumentsStep ==
    (/\ pc["http"] = "tools"
     /\ CurrentInvocation.function.arguments # <<"{", "}">>) =>
        IF CurrentInvocation.function.name = <<"f">>
        THEN tool_runs'["http"] = Append(tool_runs["http"], <<"f">>)
        ELSE outcome' = outcome

C12_NonObjectArgumentsInvokeWithEmpty == [][C12_NonObjectArgumentsStep]_vars

\* C13: with only the HTTP turn running, once the tool round of a step whose
\* assistant Message carries a single invocation is done, History holds, after
\* the system Message, the user Message, the assistant Message and the
\* tool-result Message in that order (three entries more when the next model
\* call starts), the tool-result's name is the invocation's name and its
\* tool_call_id is the invocation's id; on the legacy path it has no
\* tool_call_id.
C13_SingleInvocationAddsThree ==
    (calls["http"] >= 2 /\ Len(Invocations(HISTORY[3])) = 1) =>
        /\ Len(HISTORY) >= 4
        /\ (calls["http"] = 2 /\ pc["http"] = "request") => Len(HISTORY) = 4
        /\ HISTORY[2] = [role |-> "user", content |-> <<"hi">>]
        /\ HISTORY[3].role = "assistant"
        /\ HISTORY[4].role = "tool"
        /\ IF "tool_calls" \in DOMAIN HISTORY[3]
           THEN /\ HISTORY[4].tool_call_id = HISTORY[3].tool_calls[1].id
                /\ HISTORY[4].name = HISTORY[3].tool_calls[1].function.name
           ELSE /\ "tool_call_id" \notin DOMAIN HISTORY[4]
                /\ HISTORY[4].name = HISTORY[3].function_call.name

C13_Witness ==
    /\ pc["http"] = "request"
    /\ calls["http"] = 2
    /\ Len(HISTORY) = 4
    /\ "tool_calls" \in DOMAIN HISTORY[3]
    /\ Len(HISTORY[3].tool_calls) = 1
    /\ HISTORY[3].tool_calls[1].id = <<"c0">>
    /\ HISTORY[4].tool_call_id = <<"c0">>
    /\ HISTORY[4].name = <<"f">>

\* C14: under every interleaving of the CLI and the HTTP turn, each step
\* leaves the History it found as a prefix of the History it leaves: no entry
\* is removed, reordered or changed.
IsPrefix(h, g) == Len(h) <= Len(g) /\ \A i \in 1..Len(h) : g[i] = h[i]

C14_HistoryAppendOnly == [][IsPrefix(HISTORY, HISTORY')]_vars

C14_Witness ==
    /\ pc["cli"] = "tools"
    /\ pc["http"] = "tools"
    /\ Len(HISTORY) = 5
    /\ HISTORY[2].role = "user"
    /\ HISTORY[3].role = "user"

\* C15: a POST /chat whose prompt is empty or only whitespace is answered
\* with 400 and changes neither History nor the state of any turn: no user
\* Message, no model call, no tool execution.
C15_EmptyPromptStep ==
    (/\ turns'["http"] = turns["http"] + 1
     /\ prompt_in'["http"] \in {EmptyStr, <<Blank>>}) =>
        /\ status' = 400
        /\ HISTORY' = HISTORY
        /\ pc' = pc
        /\ calls' = calls
        /\ requests' = requests
        /\ sent' = sent
        /\ tool_runs' = tool_runs

C15_EmptyPromptRejected == [][C15_EmptyPromptStep]_vars

C15_Witness ==
    /\ status = 400
    /\ prompt_in["http"] = <<Blank>>
    /\ turns["http"] = 1
    /\ HISTORY = <<SystemMessage>>
    /\ calls["http"] = 0

\* C16: when the first assistant Message of a turn has absent content and no
\* invocation, the turn has ended after that one stream_model call with
\* status 200 and the value returned is the empty text.
C16_EmptyTurnReturnsEmptyText ==
    (/\ Len(HISTORY) >= 3
     /\ HISTORY[3].content = None
     /\ ~CarriesInvocation(HISTORY[3])) =>
        /\ Returned("http")
        /\ calls["http"] = 1
        /\ status = 200
        /\ outcome["http"].value = EmptyStr

\* the entries of h after the assistant Message h[i] are one tool-result
\* Message per invocation of h[i], in invocation order, and no further
\* tool-result Message follows them
AnsweredAt(h, i) ==
    LET inv == Invocations(h[i])
        n == Len(inv)
    IN  /\ Len(h) >= i + n
        /\ \A j \in 1..n :
              /\ h[i + j].role = "tool"
              /\ h[i + j].name = inv[j].function.name
              /\ HasToolCalls(h[i]) => h[i + j].tool_call_id = inv[j].id
        /\ Len(h) > i + n => h[i + n + 1].role # "tool"

\* while the invocations of a step are executed, the assistant Message is
\* the last entry of History and the results so far answer the invocations
\* before the current one, in order
C17_DuringTools ==
    pc["http"] = "tools" =>
        /\ HISTORY[Len(HISTORY)] = assistant_msg["http"]
        /\ tool_pos["http"] <= Len(Invocations(assistant_msg["http"]))
        /\ Len(tool_messages["http"]) = tool_pos["http"] - 1
        /\ \A j \in 1..Len(tool_messages["http"]) :
              tool_messages["http"][j].name =
                  Invocations(assistant_msg["http"])[j].function.name

\* at a model call, and for every assistant Message that is not the last
\* entry, the invocations are answered directly after the Message
C17_AnsweredBeforeNextCall ==
    /\ \A i \in AssistantIndices :
          (CarriesInvocation(HISTORY[i])
              /\ (pc["http"] = "request" \/ i < Len(HISTORY))) =>
                  AnsweredAt(HISTORY, i)
    /\ \A i \in 1..Len(sent["http"]) :
          (sent["http"][i].role = "assistant"
              /\ CarriesInvocation(sent["http"][i])) =>
                  AnsweredAt(sent["http"], i)

\* a step of the tool loop runs at most the capability of the current
\* invocation and then moves to the next invocation
C17_OneAtATime ==
    pc["http"] = "tools" =>
        /\ \/ tool_runs'["http"] = tool_runs["http"]
           \/ tool_runs'["http"] =
                  Append(tool_runs["http"], CurrentInvocation.function.name)
        /\ pc'["http"] = "tools" => tool_pos'["http"] = tool_pos["http"] + 1

\* C17: with only the HTTP turn running, the assistant Message is in History
\* before any of its tools runs, its invocations are executed one at a time in
\* list order, and at the next model call History holds exactly one
\* tool-result Message per invocation, in invocation order, directly after
\* that assistant Message.
C17_ToolRoundOrdered ==
    /\ [](C17_DuringTools /\ C17_AnsweredBeforeNextCall)
    /\ [][C17_OneAtATime]_vars

C17_Witness ==
    /\ pc["http"] = "request"
    /\ calls["http"] = 2
    /\ Len(HISTORY) = 5
    /\ Len(HISTORY[3].tool_calls) = 2
    /\ HISTORY[3].tool_calls[1].function.name = <<"f">>
    /\ HISTORY[3].tool_calls[2].function.name = <<"foo">>
    /\ HISTORY[4].name = <<"f">>
    /\ HISTORY[5].name = <<"foo">>
    /\ tool_runs["http"] = << <<"f">> >>

\* the invocations carried by the assistant Messages of h, and its
\* tool-result Messages
RECURSIVE NumInvocations(_)
NumInvocations(h) ==
    IF h = <<>> THEN 0
    ELSE NumInvocations(Tail(h))
         + IF h[1].role = "assistant" /\ CarriesInvocation(h[1])
           THEN Len(Invocations(h[1])) ELSE 0

NumToolResults(h) == Len(ToolResults(h))

\* no lock: while one thread executes the tools of its assistant Message,
\* the model call of the other thread can go ahead
C18_NoMutualExclusion ==
    \A a, b \in Threads :
        (a # b /\ pc[a] = "tools" /\ pc[b] = "request") =>
            ENABLED AttemptSucceeds(b, Answer)

\* a model call that one thread makes while the other executes tools sends a
\* History in which the other turn's assistant Message is present without
\* its tool results
C18_RequestDuringTools ==
    \A a, b \in Threads :
        (a # b /\ pc[a] = "tools" /\ requests'[b] = requests[b] + 1) =>
            /\ \E i \in 1..Len(sent'[b]) : sent'[b][i] = assistant_msg[a]
            /\ NumToolResults(sent'[b]) < NumInvocations(sent'[b])

\* C18: the CLI and the HTTP turn share History without a lock: a model call
\* of one turn is possible while the other executes tools and then sends that
\* turn's assistant invocation without its tool results; the state in which a
\* Message of one turn sits between the other's assistant Message and its
\* tool results is the witness.
C18_RaceOnHistory ==
    /\ []C18_NoMutualExclusion
    /\ [][C18_RequestDuringTools]_vars

C18_Witness ==
    /\ Len(HISTORY) = 6
    /\ HISTORY[2].role = "user"
    /\ HISTORY[3] = assistant_msg["http"]
    /\ CarriesInvocation(HISTORY[3])
    /\ HISTORY[4].role = "user"
    /\ HISTORY[5] = assistant_msg["cli"]
    /\ ~CarriesInvocation(HISTORY[5])
    /\ HISTORY[6].role = "tool"
    /\ HISTORY[6].name = HISTORY[3].tool_calls[1].function.name
    /\ sent["cli"] = SubSeq(HISTORY, 1, 4)

\* the step in which the call of a capability raises leaves History as it
\* was, answers 500 and ends the turn; once the turn has ended so, no model
\* call follows and History stays
C19_RaiseStep ==
    /\ (pc["http"] = "tools" /\ outcome'["http"].kind = "raised") =>
          /\ HISTORY' = HISTORY
          /\ status' = 500
          /\ pc'["http"] = "idle"
          /\ tool_messages'["http"] = tool_messages["http"]
    /\ outcome["http"].kind = "raised" =>
          /\ HISTORY' = HISTORY
          /\ requests' = requests
          /\ calls' = calls

\* after the raise at invocation k = tool_pos, the assistant Message is the
\* last entry of History, the user Message is kept, and the k-1 results that
\* had been produced are not in History
C19_AfterRaise ==
    outcome["http"].kind = "raised" =>
        /\ status = 500
        /\ pc["http"] = "idle"
        /\ HISTORY[2] = [role |-> "user", content |-> <<"hi">>]
        /\ HISTORY[Len(HISTORY)] = assistant_msg["http"]
        /\ CarriesInvocation(assistant_msg["http"])
        /\ Len(tool_messages["http"]) = tool_pos["http"] - 1
        /\ NumToolResults(HISTORY) + NumInvocations(<<assistant_msg["http"]>>)
              = NumInvocations(HISTORY)

\* C19: when a capability raises at the k-th invocation of an assistant
\* Message, the turn ends with no further model call, POST /chat answers 500,
\* and History keeps the user Message and the assistant Message but none of
\* the tool-result Messages for it, those of invocations 1..k-1 included.
C19_ToolExceptionAbortsTurn ==
    /\ []C19_AfterRaise
    /\ [][C19_RaiseStep]_vars

C19_Witness ==
    /\ outcome["http"].kind = "raised"
    /\ status = 500
    /\ tool_pos["http"] = 2
    /\ Len(tool_messages["http"]) = 1
    /\ tool_runs["http"] = << <<"f">>, <<"f">> >>
    /\ Len(HISTORY) = 3
    /\ Len(HISTORY[3].tool_calls) = 2

\* C20: when all MAX_RETRIES attempts of a stream_model call have failed, the
\* Message it returns has the error string as content and neither tool_calls
\* nor function_call, no capability is invoked for it and the turn ends with
\* the error string as its answer.
C20_ExhaustedRetriesErrorOnly ==
    (Len(errors["cli"]) = MAX_RETRIES /\ Len(HISTORY) >= 3) =>
        /\ HISTORY[3].content = <<"[Error: ", errors["cli"][MAX_RETRIES], "]">>
        /\ ~CarriesInvocation(HISTORY[3])
        /\ tool_runs["cli"] = <<>>
        /\ Returned("cli")
        /\ outcome["cli"].value = HISTORY[3].content

=============================================================================
